---- MODULE Spec2Model ----
(***************************************************************************)
(* Model of gst/vaapi/gstvaapiencode_h265.c: the NAL scanner               *)
(* (_h265_byte_stream_next_nal), the in-place byte-stream to hvc1 rewrite  *)
(* (_h265_convert_byte_stream_to_hvc) as driven by                         *)
(* gst_vaapiencode_h265_alloc_buffer, and the profile selector             *)
(* (find_best_profile / find_best_profile_value).                          *)
(*                                                                         *)
(* Buffers are sequences of bytes; C offsets are 0-based, so buffer[k] is  *)
(* Byte(b, k) == b[k + 1].  Pointers into the mapped buffer are offsets    *)
(* from info.data, and the NULL pointer is the offset NULL.                *)
(***************************************************************************)
EXTENDS Integers, Sequences, FiniteSets, TLC

\* Largest number of pieces (start codes, length fields, single bytes) the
\* encoder's coded buffer is assembled from.
MaxPieces == 5

\* The NULL pointer, as an offset no byte of a buffer has.
NULL == -1

VARIABLES
  coded,           \* bytes of the coded buffer the encoder produced (<<>> before
                   \* the parent class has copied them out)
  is_hvc,          \* encode->is_hvc
  pc,              \* position of the running call
  buf,             \* bytes of the mapped output buffer (info.data)
  out_buffer,      \* *out_buffer_ptr: "unset", "buffer" or "none"
  ret,             \* GstFlowReturn of gst_vaapiencode_h265_alloc_buffer
  conv,            \* outcome of _h265_convert_byte_stream_to_hvc
  mapped,          \* gst_buffer_map succeeded for the rewrite
  nal_start_code,  \* the rewrite cursor
  nal_body,        \* result of the last scanner call
  nal_size,        \* *nal_size of the last scanner call
  scan_from,       \* cursor the last scanner call was given (NULL: none yet)
  scan_buf,        \* buffer bytes the last scanner call read
  written,         \* cursors _start_code_to_size was applied at, in order
  caps,            \* the allowed caps: a sequence of structures
  score,           \* the provider's rank of each profile
  i,               \* structure index of find_best_profile
  j,               \* list index of find_best_profile
  best_profile,    \* data.best_profile
  best_score,      \* data.best_score
  profile          \* value find_best_profile returned

bufVars == <<coded, is_hvc, buf, out_buffer, ret, conv, mapped, nal_start_code,
             nal_body, nal_size, scan_from, scan_buf, written>>
profVars == <<caps, score, i, j, best_profile, best_score, profile>>
vars == <<pc, bufVars, profVars>>

----------------------------------------------------------------------------
(* Byte buffers *)

Byte(b, k) == b[k + 1]

StartCode3 == <<0, 0, 1>>
StartCode4 == <<0, 0, 0, 1>>

\* Pieces a coded buffer is drawn from: both start codes, a length field as a
\* previous rewrite leaves it, and single bytes (2 stands for any byte that is
\* neither 00 nor 01).
Pieces == {StartCode3, StartCode4, <<0, 0, 0, 2>>, <<0>>, <<1>>, <<2>>}

RECURSIVE Flatten(_)
Flatten(ps) == IF ps = <<>> THEN <<>> ELSE Head(ps) \o Flatten(Tail(ps))

BuffersOf(max) == { Flatten(ps) : ps \in UNION { [1..n -> Pieces] : n \in 0..max } }

----------------------------------------------------------------------------
(* _h265_byte_stream_next_nal *)

\* The 32-bit window `flag` is kept as its four bytes, most significant first:
\* (flag << 8) | byte drops flag[1] and appends the byte.
InitialFlag == <<255, 255, 255, 255>>

ShiftFlag(flag, byte) == <<flag[2], flag[3], flag[4], byte % 256>>

\* (flag & 0x00FFFFFF) == 0x00000001
LowThreeIsStartCode(flag) == flag[2] = 0 /\ flag[3] = 0 /\ flag[4] = 1

\* flag == 0x00000001
FlagIsStartCode4(flag) == flag = StartCode4

\* Variant of StartCodeLen that takes 00 00 00 for a 4-byte start code without
\* looking at buffer[3].
StartCodeLenUnchecked(b, base, len) ==
  IF Byte(b, base) = 0 /\ Byte(b, base + 1) = 0
  THEN IF Byte(b, base + 2) = 1 THEN 3
       ELSE IF Byte(b, base + 2) = 0 /\ len >= 4 THEN 4
       ELSE 0
  ELSE 0

\* "locate head position": width of the start code at buffer[0..]
StartCodeLen(b, base, len) ==
  IF Byte(b, base) = 0 /\ Byte(b, base + 1) = 0
  THEN IF Byte(b, base + 2) = 1 THEN 3
       ELSE IF Byte(b, base + 2) = 0 /\ len >= 4 /\ Byte(b, base + 3) = 1 THEN 4
       ELSE 0
  ELSE 0

\* Variant of MatchWidth that always takes the match for a 3-byte start code.
MatchWidthThree(flag) == 3

\* Bytes subtracted from the scan cursor when the window matched.
MatchWidth(flag) == IF FlagIsStartCode4(flag) THEN 4 ELSE 3

\* "find next nal start position": the while loop.  hit tells whether the loop
\* was left by break, size is the *nal_size the break assigned.
RECURSIVE ScanNext(_, _, _, _, _)
ScanNext(b, cur, end, flag, nal_start) ==
  IF cur >= end
  THEN [cur |-> cur, hit |-> FALSE, size |-> 0]
  ELSE LET f == ShiftFlag(flag, Byte(b, cur))
           c == cur + 1
       IN IF LowThreeIsStartCode(f)
          THEN [cur |-> c, hit |-> TRUE, size |-> c - MatchWidth(f) - nal_start]
          ELSE ScanNext(b, c, end, f, nal_start)

\* The statements after the loop: whether the end-of-buffer branch is taken.
AtEnd(cur, end) == cur >= end

\* The scanner on buffer = info.data + base with length len (len # 0 is
\* asserted by the code; the rewrite loop never calls it with len = 0).
h265_byte_stream_next_nal(b, base, len) ==
  IF len < 3
  THEN [nal_start |-> IF len # 0 THEN base ELSE NULL, nal_size |-> len]
  ELSE LET end == base + len
           nal_start == base + StartCodeLen(b, base, len)
           s == ScanNext(b, nal_start, end, InitialFlag, nal_start)
       IN IF AtEnd(s.cur, end)
          THEN [nal_start |-> IF nal_start >= end THEN NULL ELSE nal_start,
                nal_size |-> end - nal_start]
          ELSE [nal_start |-> nal_start, nal_size |-> s.size]

----------------------------------------------------------------------------
(* _start_code_to_size *)

start_code_to_size(n) ==
  << (n \div 16777216) % 256, (n \div 65536) % 256, (n \div 256) % 256, n % 256 >>

\* nal_start_code[0..3] = the four bytes; offsets at or past the end of the
\* mapped region are not part of the buffer.
WriteSize(b, at, n) ==
  [k \in 1..Len(b) |->
     IF k - 1 >= at /\ k - 1 < at + 4 THEN start_code_to_size(n)[k - at] ELSE b[k]]

----------------------------------------------------------------------------
(* _h265_convert_byte_stream_to_hvc, called by gst_vaapiencode_h265_alloc_buffer *)

FlowErrors == {"GST_FLOW_ERROR", "GST_FLOW_EOS", "GST_FLOW_FLUSHING"}

\* frame_end > nal_start_code
LoopEntered == Len(buf) > nal_start_code

NextNal == h265_byte_stream_next_nal(buf, nal_start_code, Len(buf) - nal_start_code)

\* Variant of OffsetAsserted with the assertion compiled out.
OffsetNotAsserted(body, cursor) == TRUE

\* g_assert (nal_body - nal_start_code == 4)
OffsetAsserted(body, cursor) == body - cursor = 4

\* Variant of ConvertFailed that leaves the buffer in its slot and returns
\* GST_FLOW_OK.
ConvertFailedKeepsBuffer ==
  /\ conv' = "failure"
  /\ out_buffer' = "buffer"
  /\ ret' = "GST_FLOW_OK"
  /\ pc' = "done"

\* error_convert_buffer: gst_buffer_replace (out_buffer_ptr, NULL)
ConvertFailed ==
  /\ conv' = "failure"
  /\ out_buffer' = "none"
  /\ ret' = "GST_FLOW_ERROR"
  /\ pc' = "done"

\* The parent class's alloc_buffer did not return GST_FLOW_OK.
ParentAllocFails ==
  /\ pc = "alloc"
  /\ \E r \in FlowErrors : ret' = r
  /\ pc' = "done"
  /\ UNCHANGED <<coded, is_hvc, buf, out_buffer, conv, mapped, nal_start_code,
                 nal_body, nal_size, scan_from, scan_buf, written, profVars>>

\* The parent class's alloc_buffer returned GST_FLOW_OK: *out_buffer_ptr is a
\* buffer holding the bytes of the coded buffer.
ParentAllocOk ==
  /\ pc = "alloc"
  /\ \E b \in BuffersOf(MaxPieces) : coded' = b /\ buf' = b
  /\ out_buffer' = "buffer"
  /\ ret' = "GST_FLOW_OK"
  /\ pc' = "allocated"
  /\ UNCHANGED <<is_hvc, conv, mapped, nal_start_code, nal_body, nal_size,
                 scan_from, scan_buf, written, profVars>>

\* !encode->is_hvc: the buffer is handed on as the encoder produced it.
PassThrough ==
  /\ pc = "allocated"
  /\ ~is_hvc
  /\ pc' = "done"
  /\ UNCHANGED <<coded, is_hvc, buf, out_buffer, ret, conv, mapped, nal_start_code,
                 nal_body, nal_size, scan_from, scan_buf, written, profVars>>

\* gst_buffer_map fails: the rewrite returns FALSE before touching the buffer.
MapFails ==
  /\ pc = "allocated"
  /\ is_hvc
  /\ ConvertFailed
  /\ UNCHANGED <<coded, is_hvc, buf, mapped, nal_start_code, nal_body, nal_size,
                 scan_from, scan_buf, written, profVars>>

\* The buffer is mapped: nal_start_code = info.data, nal_size = 0.
ConvertBegin ==
  /\ pc = "allocated"
  /\ is_hvc
  /\ nal_start_code' = 0
  /\ nal_size' = 0
  /\ conv' = "running"
  /\ mapped' = TRUE
  /\ pc' = "convert"
  /\ UNCHANGED <<coded, is_hvc, buf, out_buffer, ret, nal_body, scan_from,
                 scan_buf, written, profVars>>

Scanned(nal) ==
  /\ nal_body' = nal.nal_start
  /\ nal_size' = nal.nal_size
  /\ scan_from' = nal_start_code
  /\ scan_buf' = buf

\* The loop condition is false: the cursor is at the end, or the scanner
\* found no unit.
ConvertReturnsTrue ==
  /\ pc = "convert"
  /\ \/ ~LoopEntered /\ UNCHANGED <<nal_body, nal_size, scan_from, scan_buf>>
     \/ LoopEntered /\ NextNal.nal_start = NULL /\ Scanned(NextNal)
  /\ conv' = "success"
  /\ ret' = "GST_FLOW_OK"
  /\ pc' = "done"
  /\ UNCHANGED <<coded, is_hvc, buf, out_buffer, mapped, nal_start_code, written,
                 profVars>>

\* if (!nal_size) goto error
ConvertZeroSize ==
  /\ pc = "convert"
  /\ LoopEntered
  /\ NextNal.nal_start # NULL
  /\ NextNal.nal_size = 0
  /\ Scanned(NextNal)
  /\ ConvertFailed
  /\ UNCHANGED <<coded, is_hvc, buf, mapped, nal_start_code, written, profVars>>

\* g_assert (nal_body - nal_start_code == 4) fails: the process aborts.
ConvertAssertFails ==
  /\ pc = "convert"
  /\ LoopEntered
  /\ NextNal.nal_start # NULL
  /\ NextNal.nal_size # 0
  /\ ~OffsetAsserted(NextNal.nal_start, nal_start_code)
  /\ Scanned(NextNal)
  /\ conv' = "abort"
  /\ pc' = "aborted"
  /\ UNCHANGED <<coded, is_hvc, buf, out_buffer, ret, mapped, nal_start_code,
                 written, profVars>>

\* _start_code_to_size (nal_start_code, nal_size);
\* nal_start_code = nal_body + nal_size
ConvertWrite ==
  /\ pc = "convert"
  /\ LoopEntered
  /\ NextNal.nal_start # NULL
  /\ NextNal.nal_size # 0
  /\ OffsetAsserted(NextNal.nal_start, nal_start_code)
  /\ Scanned(NextNal)
  /\ buf' = WriteSize(buf, nal_start_code, NextNal.nal_size)
  /\ written' = Append(written, nal_start_code)
  /\ nal_start_code' = NextNal.nal_start + NextNal.nal_size
  /\ UNCHANGED <<coded, is_hvc, pc, out_buffer, ret, conv, mapped, profVars>>

----------------------------------------------------------------------------
(* Allowed caps and the capability provider *)

\* Largest number of profile values (fields and list elements) in the caps.
MaxValues == 3

\* Largest rank the provider gives a profile.
MaxScore == 1

GST_VAAPI_PROFILE_UNKNOWN == 0

\* Profile strings: three the provider knows and one it does not.  NullString
\* is what g_value_get_string gives for a string value that holds no string;
\* the caps drawn here hold none.
NullString == "(null)"
Strings == {"main", "main-10", "main-444", "bogus"}

\* gst_vaapi_utils_h265_get_profile_from_string
get_profile_from_string(str) ==
  IF str = "main" THEN 1
  ELSE IF str = "main-10" THEN 2
  ELSE IF str = "main-444" THEN 3
  ELSE GST_VAAPI_PROFILE_UNKNOWN

Profiles == { get_profile_from_string(s) : s \in Strings } \ {GST_VAAPI_PROFILE_UNKNOWN}

\* Rank tables of the provider: every assignment of ranks 0..MaxScore to the
\* profiles, up to renaming the profiles (the profiles are numbered by
\* non-increasing rank; the caps range over every order of the strings).
ScoreTables ==
  { t \in [Profiles -> 0..MaxScore] :
      \A p \in Profiles, q \in Profiles : p < q => t[p] >= t[q] }

\* gst_vaapi_utils_h265_get_profile_score, for the table drawn in `score`
get_profile_score(p) == score[p]

\* A GValue: a string (possibly NULL) or a value of another type.
StringValue(s) == [holds |-> "string", str |-> s]
IntValue == [holds |-> "int", str |-> NullString]
Values == { StringValue(s) : s \in Strings } \cup {IntValue}

\* A structure's "profile" field: absent, a single value, or a list of values.
NoField == [kind |-> "absent", vals |-> <<>>]
SingleField(v) == [kind |-> "value", vals |-> <<v>>]
ListField(vs) == [kind |-> "list", vals |-> vs]

\* A list holds at least two alternatives; one alternative is a single value.
StructuresOfWeight(w) ==
  IF w = 1
  THEN {NoField} \cup { SingleField(v) : v \in Values }
  ELSE { ListField(vs) : vs \in [1..w -> Values] }

RECURSIVE CapsOfWeight(_)
CapsOfWeight(w) ==
  IF w = 0 THEN {<<>>}
  ELSE UNION { { <<s>> \o c : s \in StructuresOfWeight(k), c \in CapsOfWeight(w - k) }
               : k \in 1..w }

AllowedCaps(max) == UNION { CapsOfWeight(w) : w \in 0..max }

----------------------------------------------------------------------------
(* find_best_profile_value, find_best_profile *)

\* The comparison that lets a candidate through: !(score < data->best_score)
KeepsCandidate(s, best) == ~(s < best)

\* Variant of find_best_profile_value that stores the profile and leaves
\* data->best_score as it was.
find_best_profile_value_stale(data, value) ==
  IF value.holds # "string" THEN data
  ELSE IF value.str = NullString THEN data
  ELSE LET p == get_profile_from_string(value.str) IN
       IF p = GST_VAAPI_PROFILE_UNKNOWN THEN data
       ELSE IF get_profile_score(p) < data.best_score THEN data
       ELSE [best_profile |-> p, best_score |-> data.best_score]

\* find_best_profile_value: the FindBestProfileData after the call
find_best_profile_value(data, value) ==
  IF value.holds # "string" THEN data
  ELSE IF value.str = NullString THEN data
  ELSE LET p == get_profile_from_string(value.str) IN
       IF p = GST_VAAPI_PROFILE_UNKNOWN THEN data
       ELSE IF ~KeepsCandidate(get_profile_score(p), data.best_score) THEN data
       ELSE [best_profile |-> p, best_score |-> get_profile_score(p)]

Data == [best_profile |-> best_profile, best_score |-> best_score]

SetData(d) ==
  /\ best_profile' = d.best_profile
  /\ best_score' = d.best_score

\* structure i of the caps (0-based, as gst_caps_get_structure)
Structure == caps[i + 1]

\* if (!value) continue
FindNoField ==
  /\ pc = "find"
  /\ i < Len(caps)
  /\ Structure.kind = "absent"
  /\ i' = i + 1
  /\ UNCHANGED <<pc, caps, score, j, best_profile, best_score, profile, bufVars>>

\* the value holds neither a string nor a list
FindOtherType ==
  /\ pc = "find"
  /\ i < Len(caps)
  /\ Structure.kind = "value"
  /\ Structure.vals[1].holds # "string"
  /\ i' = i + 1
  /\ UNCHANGED <<pc, caps, score, j, best_profile, best_score, profile, bufVars>>

\* G_VALUE_HOLDS_STRING (value)
FindString ==
  /\ pc = "find"
  /\ i < Len(caps)
  /\ Structure.kind = "value"
  /\ Structure.vals[1].holds = "string"
  /\ SetData(find_best_profile_value(Data, Structure.vals[1]))
  /\ i' = i + 1
  /\ UNCHANGED <<pc, caps, score, j, profile, bufVars>>

\* GST_VALUE_HOLDS_LIST (value): one pass of the inner loop
FindListValue ==
  /\ pc = "find"
  /\ i < Len(caps)
  /\ Structure.kind = "list"
  /\ j < Len(Structure.vals)
  /\ SetData(find_best_profile_value(Data, Structure.vals[j + 1]))
  /\ j' = j + 1
  /\ UNCHANGED <<pc, caps, score, i, profile, bufVars>>

\* the inner loop ends (j = num_values)
FindListEnd ==
  /\ pc = "find"
  /\ i < Len(caps)
  /\ Structure.kind = "list"
  /\ j >= Len(Structure.vals)
  /\ i' = i + 1
  /\ j' = 0
  /\ UNCHANGED <<pc, caps, score, best_profile, best_score, profile, bufVars>>

\* return data.best_profile
FindReturn ==
  /\ pc = "find"
  /\ i >= Len(caps)
  /\ profile' = best_profile
  /\ pc' = "found"
  /\ UNCHANGED <<caps, score, i, j, best_profile, best_score, bufVars>>

\* find_best_profile is entered: data = { GST_VAAPI_PROFILE_UNKNOWN, 0 }; no
\* buffer is being allocated.
InitProfile ==
  /\ caps \in AllowedCaps(MaxValues)
  /\ score \in ScoreTables
  /\ pc = "find"
  /\ i = 0
  /\ j = 0
  /\ best_profile = GST_VAAPI_PROFILE_UNKNOWN
  /\ best_score = 0
  /\ profile = GST_VAAPI_PROFILE_UNKNOWN
  /\ coded = <<>>
  /\ is_hvc = FALSE
  /\ buf = <<>>
  /\ out_buffer = "unset"
  /\ ret = "none"
  /\ conv = "none"
  /\ mapped = FALSE
  /\ nal_start_code = 0
  /\ nal_body = NULL
  /\ nal_size = 0
  /\ scan_from = NULL
  /\ scan_buf = <<>>
  /\ written = <<>>

NextProfile ==
  \/ FindNoField
  \/ FindOtherType
  \/ FindString
  \/ FindListValue
  \/ FindListEnd
  \/ FindReturn

SpecProfile == InitProfile /\ [][NextProfile]_vars

----------------------------------------------------------------------------

\* gst_vaapiencode_h265_alloc_buffer is entered; no profile selection is
\* running.
Init ==
  /\ coded = <<>>
  /\ is_hvc \in BOOLEAN
  /\ pc = "alloc"
  /\ buf = <<>>
  /\ out_buffer = "unset"
  /\ ret = "none"
  /\ conv = "none"
  /\ mapped = FALSE
  /\ nal_start_code = 0
  /\ nal_body = NULL
  /\ nal_size = 0
  /\ scan_from = NULL
  /\ scan_buf = <<>>
  /\ written = <<>>
  /\ caps = <<>>
  /\ score = <<>>
  /\ i = 0
  /\ j = 0
  /\ best_profile = GST_VAAPI_PROFILE_UNKNOWN
  /\ best_score = 0
  /\ profile = GST_VAAPI_PROFILE_UNKNOWN

Next ==
  \/ ParentAllocFails
  \/ ParentAllocOk
  \/ PassThrough
  \/ MapFails
  \/ ConvertBegin
  \/ ConvertReturnsTrue
  \/ ConvertZeroSize
  \/ ConvertAssertFails
  \/ ConvertWrite

Spec == Init /\ [][Next]_vars

----------------------------------------------------------------------------
(* Vocabulary of the properties *)

\* The call has ended: it returned, or the process aborted in g_assert.
Terminated == pc \in {"done", "aborted"}

\* The rewrite ran on the mapped buffer and has ended.
Rewritten == Terminated /\ mapped

\* 00 00 01, resp. 00 00 00 01, begins at offset p of b
IsStart3(b, p) == p >= 0 /\ p + 3 <= Len(b) /\ SubSeq(b, p + 1, p + 3) = StartCode3
IsStart4(b, p) == p >= 0 /\ p + 4 <= Len(b) /\ SubSeq(b, p + 1, p + 4) = StartCode4

\* offsets at or after `from` where a 00 00 01 begins
Starts3From(b, from) == { p \in from..(Len(b) - 3) : IsStart3(b, p) }

Least(S) == CHOOSE x \in S : \A y \in S : x <= y

ContainsStart3(u) == Starts3From(u, 0) # {}

\* b from offset `at` as N >= 1 units, each 00 00 00 01 and a non-empty
\* payload holding no 00 00 01: ok tells whether it has that form, units are
\* the payloads in order.
RECURSIVE ByteStreamUnits(_, _)
ByteStreamUnits(b, at) ==
  IF ~IsStart4(b, at) THEN [ok |-> FALSE, units |-> <<>>]
  ELSE LET body == at + 4
           nexts == Starts3From(b, body)
       IN IF nexts = {}
          THEN [ok |-> body < Len(b), units |-> <<SubSeq(b, body + 1, Len(b))>>]
          ELSE LET nxt == Least(nexts) - 1
               IN IF nxt <= body \/ Byte(b, nxt) # 0
                  THEN [ok |-> FALSE, units |-> <<>>]
                  ELSE LET rest == ByteStreamUnits(b, nxt)
                       IN [ok |-> rest.ok,
                           units |-> <<SubSeq(b, body + 1, nxt)>> \o rest.units]

\* the 4-byte big-endian number at offset `at`
ReadLength(b, at) ==
  Byte(b, at) * 16777216 + Byte(b, at + 1) * 65536 + Byte(b, at + 2) * 256 + Byte(b, at + 3)

\* b from offset `at` read as (4-byte big-endian length L >= 1, L payload
\* bytes) records: ok tells whether the records end exactly at the end of b.
RECURSIVE HvcRecords(_, _)
HvcRecords(b, at) ==
  IF at = Len(b) THEN [ok |-> TRUE, units |-> <<>>]
  ELSE IF at + 4 > Len(b) THEN [ok |-> FALSE, units |-> <<>>]
  ELSE LET L == ReadLength(b, at)
       IN IF L < 1 \/ at + 4 + L > Len(b) THEN [ok |-> FALSE, units |-> <<>>]
          ELSE LET rest == HvcRecords(b, at + 4 + L)
               IN [ok |-> rest.ok,
                   units |-> <<SubSeq(b, at + 5, at + 4 + L)>> \o rest.units]

\* b is a non-empty length-prefixed buffer
IsLengthPrefixed(b) == Len(b) > 0 /\ HvcRecords(b, 0).ok

\* a start code (3 or 4 bytes) directly followed by another start code
HasEmptyUnit(b) ==
  \E p \in 0..(Len(b) - 3) :
     IsStart3(b, p) /\ (IsStart3(b, p + 3) \/ IsStart4(b, p + 3))

\* the profile a value resolves to, GST_VAAPI_PROFILE_UNKNOWN if none
Resolve(v) ==
  IF v.holds = "string" /\ v.str # NullString
  THEN get_profile_from_string(v.str)
  ELSE GST_VAAPI_PROFILE_UNKNOWN

IsResolved(v) == Resolve(v) # GST_VAAPI_PROFILE_UNKNOWN

\* every value of the caps' profile fields, in the order of the structures
AllValues(c) == Flatten([k \in 1..Len(c) |-> c[k].vals])

\* the resolved candidates, in order
Candidates(c) ==
  LET vs == SelectSeq(AllValues(c), IsResolved)
  IN [k \in 1..Len(vs) |-> Resolve(vs[k])]

Range(f) == { f[k] : k \in DOMAIN f }

\* positions of the candidates of the highest score
TopCandidates(cs) ==
  { k \in 1..Len(cs) : \A m \in 1..Len(cs) : score[cs[k]] >= score[cs[m]] }

\* the value the next pass of find_best_profile hands to find_best_profile_value
HasCurrentValue ==
  /\ pc = "find"
  /\ i < Len(caps)
  /\ \/ Structure.kind = "value"
     \/ Structure.kind = "list" /\ j < Len(Structure.vals)

CurrentValue == IF Structure.kind = "value" THEN Structure.vals[1] ELSE Structure.vals[j + 1]

----------------------------------------------------------------------------
(* Properties *)

\* C1: a mapped buffer of N >= 1 units, each 00 00 00 01 and a non-empty
\* payload without 00 00 01, is rewritten with success, keeps its length, and
\* read as length-prefixed records gives the N payloads unchanged, in order.
C1_RoundTrip ==
  (Rewritten /\ ByteStreamUnits(coded, 0).ok) =>
     /\ conv = "success"
     /\ Len(buf) = Len(coded)
     /\ HvcRecords(buf, 0).ok
     /\ HvcRecords(buf, 0).units = ByteStreamUnits(coded, 0).units

\* C1 witness: 00 00 00 01 02 02 00 00 00 01 02 became 00 00 00 02 02 02 00 00 00 01 02.
C1_Witness ==
  /\ Rewritten
  /\ coded = <<0, 0, 0, 1, 2, 2, 0, 0, 0, 1, 2>>
  /\ ByteStreamUnits(coded, 0).units = << <<2, 2>>, <<2>> >>
  /\ conv = "success"
  /\ buf = <<0, 0, 0, 2, 2, 2, 0, 0, 0, 1, 2>>

\* C2 (as stated): among the resolved candidates the first one of the highest
\* score is what find_best_profile returns (a later candidate of equal score
\* does not replace the running best).
C2_FirstSeenWins ==
  (pc = "found" /\ Candidates(caps) # <<>>) =>
     profile = Candidates(caps)[Least(TopCandidates(Candidates(caps)))]

\* C3 (as stated): once the scanner reported a unit whose payload does not
\* begin 4 bytes after the cursor, the rewrite returns failure.
C3_MismatchReturnsFailure ==
  (Terminated /\ scan_from # NULL /\ nal_body # NULL /\ nal_body - scan_from # 4) =>
     conv = "failure"

\* C4 (as stated): rewriting a buffer that is already length-prefixed never
\* returns success.
C4_NeverSucceeds ==
  (Rewritten /\ IsLengthPrefixed(coded)) => conv # "success"

\* C4 (amended): rewriting a length-prefixed buffer whose first length field
\* is not 1 never returns success: it ends at the first unit, by the
\* zero-size failure or in the offset assertion, before any byte is written.
C4_FirstLengthNotOne ==
  (Rewritten /\ IsLengthPrefixed(coded) /\ ReadLength(coded, 0) # 1) =>
     /\ conv \in {"failure", "abort"}
     /\ written = <<>>
     /\ buf = coded

\* C4 witness: a rewrite of 00 00 00 02 .. .. ended in the offset assertion.
C4_Witness ==
  /\ Rewritten
  /\ IsLengthPrefixed(coded)
  /\ ReadLength(coded, 0) = 2
  /\ conv = "abort"

\* C5 (as stated): when a 00 00 01 lies at or after the unit's start, the
\* reported size is the distance from the unit's start to the first byte of
\* the first such start code (its leading 00 when it is 00 00 00 01).
C5_UnitEndsAtStartCode ==
  (scan_from # NULL /\ Len(scan_buf) - scan_from >= 3 /\ nal_body # NULL
     /\ Starts3From(scan_buf, nal_body) # {}) =>
     LET p == Least(Starts3From(scan_buf, nal_body))
         first == IF p - 1 >= nal_body /\ Byte(scan_buf, p - 1) = 0 THEN p - 1 ELSE p
     IN nal_size = first - nal_body

\* C6 (as stated): a unit of size zero ends the rewrite with failure and
\* without a write for it, and a buffer holding an empty unit followed by
\* another start code is never rewritten with success.
C6_EmptyUnitFails ==
  /\ (Rewritten /\ nal_body # NULL /\ nal_size = 0) =>
        conv = "failure" /\ (\A k \in DOMAIN written : written[k] < scan_from)
  /\ (Rewritten /\ HasEmptyUnit(coded)) => conv # "success"

\* C7: find_best_profile returns GST_VAAPI_PROFILE_UNKNOWN exactly when no
\* value of the caps resolves; otherwise it returns a resolved candidate of
\* the highest score (also when that score is 0).
C7_State ==
  pc = "found" =>
     LET cs == Candidates(caps)
     IN /\ (profile = GST_VAAPI_PROFILE_UNKNOWN) <=> (cs = <<>>)
        /\ cs # <<>> =>
             /\ profile \in Range(cs)
             /\ \A r \in Range(cs) : score[profile] >= score[r]

\* C7: handing over a value that does not resolve leaves the running best as
\* it was.
C7_Step ==
  (HasCurrentValue /\ ~IsResolved(CurrentValue)) =>
     (best_profile' = best_profile /\ best_score' = best_score)

\* C7: both parts.
C7_BestResolved == []C7_State /\ [][C7_Step]_vars

\* C7 witness: the only resolved candidate has score 0, an unresolvable
\* string came with it, and the candidate was returned.
C7_Witness ==
  /\ pc = "found"
  /\ Len(Candidates(caps)) = 1
  /\ Len(AllValues(caps)) > 1
  /\ score[Candidates(caps)[1]] = 0
  /\ profile = Candidates(caps)[1]

\* C8: GST_FLOW_OK comes with the buffer, either untouched (is_hvc unset) or
\* after a successful rewrite (is_hvc set); a failed rewrite clears the
\* buffer slot and returns an error; a failed parent allocation returns its
\* status and the rewrite is not run.
C8_AllocBuffer ==
  pc = "done" =>
     /\ ret = "GST_FLOW_OK" =>
          /\ out_buffer = "buffer"
          /\ \/ ~is_hvc /\ buf = coded /\ conv = "none"
             \/ is_hvc /\ conv = "success"
     /\ conv = "failure" => (out_buffer = "none" /\ ret = "GST_FLOW_ERROR")
     /\ out_buffer = "buffer" => ret = "GST_FLOW_OK"
     /\ conv = "none" /\ ret # "GST_FLOW_OK" =>
          /\ ret \in FlowErrors
          /\ ~mapped /\ scan_from = NULL /\ written = <<>> /\ out_buffer = "unset"

\* C8 witness: a rewrite failed after a length field had been written, and
\* the buffer slot was cleared.
C8_Witness ==
  /\ pc = "done"
  /\ conv = "failure"
  /\ written # <<>>
  /\ buf # coded
  /\ out_buffer = "none"

\* C9 (as stated): after a successful rewrite the buffer read as
\* length-prefixed records ends exactly at its end and no payload holds a
\* start code.
C9_SuccessIsLengthPrefixed ==
  (Terminated /\ conv = "success") =>
     /\ HvcRecords(buf, 0).ok
     /\ \A u \in Range(HvcRecords(buf, 0).units) : ~ContainsStart3(u)

\* C10: what holds of the buffer in every state of a rewrite: a byte that
\* differs from the coded buffer lies in a 00 00 00 01 of it, and after a
\* failure or an abort the bytes from the cursor on are the coded ones.
C10_State ==
  /\ \A k \in 0..(Len(buf) - 1) :
        Byte(buf, k) # Byte(coded, k) =>
           \E c \in 0..k : k < c + 4 /\ IsStart4(coded, c)
  /\ (mapped /\ conv \in {"failure", "abort"}) =>
        \A k \in nal_start_code..(Len(buf) - 1) : Byte(buf, k) = Byte(coded, k)

\* C10: what holds of every step of the rewrite loop: a write is at the
\* cursor, inside the buffer, over a 00 00 00 01; no other byte changes; the
\* cursor grows while the loop goes on; a failing step writes nothing.
C10_Step ==
  pc = "convert" =>
     /\ Len(buf') = Len(buf)
     /\ \A k \in 0..(Len(buf) - 1) :
           Byte(buf', k) # Byte(buf, k) => (k >= nal_start_code /\ k < nal_start_code + 4)
     /\ buf' # buf => written' # written
     /\ written' # written =>
           /\ written' = Append(written, nal_start_code)
           /\ nal_start_code + 4 <= Len(buf)
           /\ IsStart4(buf, nal_start_code)
     /\ pc' = "convert" => nal_start_code' > nal_start_code
     /\ conv' \in {"failure", "abort"} => (buf' = buf /\ written' = written)

\* C10: both parts.
C10_OnlyStartCodesWritten == []C10_State /\ [][C10_Step]_vars

\* C10 witness: a second length field was written (the cursor had moved on
\* from 0) and the bytes between the two fields are the coded ones.
C10_Witness ==
  /\ pc = "convert"
  /\ Len(written) = 2
  /\ written[2] > written[1] + 4
  /\ buf # coded

====
